---- MODULE Spec2Model ----
(***************************************************************************)
(* Model of the team-location pipeline:                                    *)
(*   - the geocoding script (backend/src/utils/analyzeTeamData.js,         *)
(*     geocodeTeamData and its helpers isPotentiallyProblematic and        *)
(*     normalizeLocation),                                                 *)
(*   - the team data processor (processTeamData), which joins the raw      *)
(*     records to the geocode results and writes the served dataset.       *)
(*                                                                         *)
(* JavaScript strings are sequences of one-character strings, so that      *)
(* includes / replace / trim / split / template literals are computed      *)
(* character by character, as the code computes them.                      *)
(***************************************************************************)
EXTENDS Integers, Sequences, FiniteSets, TLC

VARIABLES
    \* ---- normalizeLocation exercised on its own (NormSpec) ----
    nLoc,        \* the location argument
    nCountry,    \* the country argument
    nOut,        \* normalizeLocation(nLoc, nCountry)
    nOut2,       \* normalizeLocation(nOut, nCountry)
    nQuery,      \* the searchQuery built from nOut and nCountry
    nFlag,       \* isPotentiallyProblematic(nLoc)
    npc,         \* "off" | "in" | "classified" | "normalized" | "queried" | "again"
    \* ---- the files on disk ----
    teamFile,    \* teamJSON.txt: the sequence of raw team members
    teamFileOk,  \* whether teamJSON.txt can be read and parsed
    artifact,    \* geocode_results.json (NoObject until written)
    finalData,   \* data/team.json (NoObject until written)
    \* ---- one run of geocodeTeamData ----
    gpc,         \* position of the async function
    locationMap, \* Map key -> {location, country, count, members}, insertion order
    problematic, \* the problematic entries, in order
    normal,      \* the other entries, in order
    allLocations,\* [...problematic, ...normal]
    gi,          \* loop index of the forward loop
    geocodeResults, \* Map key -> result, insertion order
    successCount,
    failCount,
    requests,    \* forward-geocode requests issued so far, each with the
                 \* provider's answer (key, location, country, query,
                 \* outcome, result)
    verificationsNeeded,
    vi,          \* loop index of the verification loop
    mismatches,
    reverseRequests, \* reverse-geocode requests issued so far
    lastReverse, \* the latest answer of geocoder.reverse and its verdict
                 \* of the verification loop (NoObject outside of it)
    lastEvent,   \* the latest external event of the run:
                 \* "none" | "forward" | "reverse" | "delay"
    eventBeforeRequest, \* what lastEvent was when the latest request was issued
    \* ---- one run of processTeamData ----
    mpc,         \* "idle" | "done" | "failed"
    warnings,    \* the console.warn lines of the run
    processed,   \* let processed = 0
    skipped,     \* let skipped = 0
    \* ---- the record of the runs of the two scripts ----
    artifactBefore,  \* geocode_results.json as it was before the run
    finalDataBefore, \* data/team.json as it was before the run
    artifactWrites,  \* number of writes of geocode_results.json
    stderr,          \* the console.error lines of the catch blocks
    \* ---- the server process (routes/applicant.js, routes/team.js) ----
    applicantFile,   \* data/applicant.json on disk (data/team.json is finalData)
    teamData,        \* let teamData = null: the module-level cache
    applicantData,   \* let applicantData = null
    request,         \* the latest request handled
    response,        \* the reply to it
    nReq,            \* number of requests handled
    teamLoaded,      \* loadTeamData has read and parsed the file once
    applicantLoaded, \* loadApplicantData has read and parsed the file once
    teamFirst,       \* what the first successful loadTeamData returned
    applicantFirst,  \* what the first successful loadApplicantData returned
    teamRereads,     \* readFileSync calls on team.json after that load
    serverUp,        \* the process is running and listening
    prevResponse,    \* the response before the latest one
    applicantRereads \* readFileSync calls on applicant.json after that load

normVars == <<nLoc, nCountry, nOut, nOut2, nQuery, nFlag, npc>>
fileVars == <<teamFile, teamFileOk, artifact, finalData>>
geoVars  == <<gpc, locationMap, problematic, normal, allLocations, gi,
              geocodeResults, successCount, failCount, requests,
              verificationsNeeded, vi, mismatches, reverseRequests,
              lastReverse, lastEvent, eventBeforeRequest>>
mergeVars == <<mpc, warnings, processed, skipped>>
runVars == <<artifactBefore, finalDataBefore, artifactWrites, stderr>>
srvVars == <<applicantFile, teamData, applicantData, request, response, nReq,
             teamLoaded, applicantLoaded, teamFirst, applicantFirst,
             teamRereads, applicantRereads, serverUp, prevResponse>>
vars == <<normVars, fileVars, geoVars, mergeVars, srvVars, runVars>>

----------------------------------------------------------------------------
(* JavaScript values *)

\* null and undefined, kept apart from every string (a string holds only
\* one-character elements).
Null == <<"<null>">>
Undefined == <<"<undefined>">>
NaN == <<"<NaN>">>

IsString(v) == v \notin {Null, Undefined, NaN}

\* An object that is not there: a file that does not exist, a property that
\* was never set
NoObject == [none |-> TRUE]

\* A file that exists and is not JSON, and a file that holds the JSON text
\* null (NoObject is the file that does not exist)
Unparsable == [unparsable |-> TRUE]
JsonNull == [jsonNull |-> TRUE]

\* JSON.parse(fs.readFileSync(path, 'utf-8')) throws on a missing file and
\* on text that is not JSON
ReadThrows(file) == file = NoObject \/ file = Unparsable

\* and returns null for the text null (null is NoObject in an object slot)
ParseFile(file) == IF file = JsonNull THEN NoObject ELSE file

\* The string literals of the source, character by character.
sNull     == <<"n","u","l","l">>
sUndefined == <<"u","n","d","e","f","i","n","e","d">>
sWorld    == <<"w","o","r","l","d">>
sNorthPole == <<"N","o","r","t","h"," ","P","o","l","e">>
sGB       == <<"G","B">>
sCommaUK  == <<","," ","U","K">>
sGreater  == <<"G","r","e","a","t","e","r">>
sArea     == <<"A","r","e","a">>
sComma    == <<",">>
sCommaSp  == <<","," ">>
sBar      == <<"|">>

\* String.prototype.toLowerCase on one character.
LowerChar(c) ==
    CASE c = "A" -> "a"
      [] c = "B" -> "b"
      [] c = "C" -> "c"
      [] c = "D" -> "d"
      [] c = "E" -> "e"
      [] c = "F" -> "f"
      [] c = "G" -> "g"
      [] c = "H" -> "h"
      [] c = "I" -> "i"
      [] c = "J" -> "j"
      [] c = "K" -> "k"
      [] c = "L" -> "l"
      [] c = "M" -> "m"
      [] c = "N" -> "n"
      [] c = "O" -> "o"
      [] c = "P" -> "p"
      [] c = "Q" -> "q"
      [] c = "R" -> "r"
      [] c = "S" -> "s"
      [] c = "T" -> "t"
      [] c = "U" -> "u"
      [] c = "V" -> "v"
      [] c = "W" -> "w"
      [] c = "X" -> "x"
      [] c = "Y" -> "y"
      [] c = "Z" -> "z"
      [] OTHER -> c

toLowerCase(s) == [k \in 1..Len(s) |-> LowerChar(s[k])]

IsSpace(c) == c = " "

\* s.substring starting at position k (1-based) begins with sub
StartsAt(s, sub, k) ==
    /\ k >= 1
    /\ k + Len(sub) - 1 <= Len(s)
    /\ \A j \in 1..Len(sub) : s[k + j - 1] = sub[j]

\* String.prototype.indexOf, 1-based, 0 when absent
indexOf(s, sub) ==
    LET hits == {k \in 1..(Len(s) + 1) : StartsAt(s, sub, k)}
    IN IF hits = {} THEN 0 ELSE CHOOSE k \in hits : \A m \in hits : k <= m

\* String.prototype.includes
includes(s, sub) == indexOf(s, sub) # 0

\* Remove the characters from..to (inclusive) of s
Cut(s, from, to) == SubSeq(s, 1, from - 1) \o SubSeq(s, to + 1, Len(s))

\* String.prototype.replace(sub, '') with a string pattern: the first
\* occurrence only
replaceFirst(s, sub) ==
    LET k == indexOf(s, sub)
    IN IF k = 0 THEN s ELSE Cut(s, k, k + Len(sub) - 1)

\* String.prototype.trim
trim(s) ==
    LET keep == {k \in 1..Len(s) : ~IsSpace(s[k])}
    IN IF keep = {} THEN <<>>
       ELSE LET lo == CHOOSE k \in keep : \A m \in keep : k <= m
                hi == CHOOSE k \in keep : \A m \in keep : k >= m
            IN SubSeq(s, lo, hi)

\* s.split(',')[0]
splitCommaFirst(s) ==
    LET k == indexOf(s, sComma)
    IN IF k = 0 THEN s ELSE SubSeq(s, 1, k - 1)

\* the end of the run of whitespace that starts at position k (k - 1 if none)
SpaceRunEnd(s, k) ==
    LET stops == {m \in k..(Len(s) + 1) : m = Len(s) + 1 \/ ~IsSpace(s[m])}
    IN (CHOOSE m \in stops : \A q \in stops : m <= q) - 1

\* s.replace(/Greater\s+/i, ''): the leftmost match, \s+ greedy
replaceGreaterRe(s) ==
    LET low == toLowerCase(s)
        g == toLowerCase(sGreater)
        hits == {k \in 1..Len(s) :
                    /\ StartsAt(low, g, k)
                    /\ k + Len(g) <= Len(s)
                    /\ IsSpace(s[k + Len(g)])}
    IN IF hits = {} THEN s
       ELSE LET k == CHOOSE h \in hits : \A m \in hits : h <= m
            IN Cut(s, k, SpaceRunEnd(s, k + Len(g)))

\* s.replace(/\s+Area/i, ''): the leftmost match; "Area" starts with a
\* non-space, so the whitespace of a match is the whole run up to it
replaceAreaRe(s) ==
    LET low == toLowerCase(s)
        a == toLowerCase(sArea)
        hits == {k \in 1..Len(s) :
                    /\ IsSpace(s[k])
                    /\ StartsAt(low, a, SpaceRunEnd(s, k) + 1)}
    IN IF hits = {} THEN s
       ELSE LET k == CHOOSE h \in hits : \A m \in hits : h <= m
            IN Cut(s, k, SpaceRunEnd(s, k) + Len(a))

\* A value inside a template literal: `${v}`
TemplateStr(v) ==
    IF v = Null THEN sNull
    ELSE IF v = Undefined THEN sUndefined
    ELSE IF v = NaN THEN <<"N","a","N">>
    ELSE v

\* JavaScript truthiness of a string-or-null value
Truthy(v) == IsString(v) /\ v # <<>>

\* The countryNames object literal of normalizeLocation: the name for a
\* code, Undefined for a code that is not a key of the table.
countryNames(country) ==
    CASE country = <<"P","L">> -> <<"P","o","l","a","n","d">>
      [] country = <<"G","B">> -> <<"U","n","i","t","e","d"," ","K","i","n","g","d","o","m">>
      [] country = <<"U","S">> -> <<"U","n","i","t","e","d"," ","S","t","a","t","e","s">>
      [] country = <<"C","A">> -> <<"C","a","n","a","d","a">>
      [] country = <<"D","E">> -> <<"G","e","r","m","a","n","y">>
      [] country = <<"F","R">> -> <<"F","r","a","n","c","e">>
      [] country = <<"E","S">> -> <<"S","p","a","i","n">>
      [] country = <<"I","T">> -> <<"I","t","a","l","y">>
      [] country = <<"N","L">> -> <<"N","e","t","h","e","r","l","a","n","d","s">>
      [] country = <<"B","E">> -> <<"B","e","l","g","i","u","m">>
      [] OTHER -> Undefined

\* The guard of the first rule: !location || location === 'null' ||
\* location.toLowerCase() === 'world'
IsSentinelInput(location) ==
    \/ ~Truthy(location)
    \/ location = sNull
    \/ toLowerCase(location) = sWorld

\* if (country === 'GB' && normalized.includes(', UK'))
\*   normalized = normalized.replace(', UK', '')
StripUK(normalized, country) ==
    IF country = sGB /\ includes(normalized, sCommaUK)
    THEN replaceFirst(normalized, sCommaUK)
    ELSE normalized

\* if (normalized.includes('Greater') && normalized.includes('Area'))
\*   normalized = normalized.replace(/Greater\s+/i, '').replace(/\s+Area/i, '')
StripGreaterArea(normalized) ==
    IF includes(normalized, sGreater) /\ includes(normalized, sArea)
    THEN replaceAreaRe(replaceGreaterRe(normalized))
    ELSE normalized

\* StripCountryName with the name compared case-sensitively
StripCountryName_CaseSensitive(normalized, country) ==
    IF Truthy(country) /\ includes(normalized, sComma)
    THEN LET countryName == countryNames(country)
         IN IF countryName # Undefined /\ includes(normalized, countryName)
            THEN trim(splitCommaFirst(normalized))
            ELSE normalized
    ELSE normalized

\* if (country && normalized.includes(',')) { ... split(',')[0].trim() }
StripCountryName(normalized, country) ==
    IF Truthy(country) /\ includes(normalized, sComma)
    THEN LET countryName == countryNames(country)
         IN IF countryName # Undefined
               /\ includes(toLowerCase(normalized), toLowerCase(countryName))
            THEN trim(splitCommaFirst(normalized))
            ELSE normalized
    ELSE normalized

\* The string that reaches the country-name rule: after trim, the UK rule
\* and the Greater/Area rule (defined for a location that is not replaced by
\* the sentinel)
BeforeCountryRule(location, country) ==
    StripGreaterArea(StripUK(trim(location), country))

normalizeLocation(location, country) ==
    IF IsSentinelInput(location)
    THEN sNorthPole
    ELSE StripCountryName(BeforeCountryRule(location, country), country)

\* const searchQuery = loc.country && loc.country !== 'world'
\*   ? `${normalizedLocation}, ${loc.country}` : normalizedLocation
searchQuery(normalizedLocation, country) ==
    IF Truthy(country) /\ country # sWorld
    THEN normalizedLocation \o sCommaSp \o country
    ELSE normalizedLocation

\* The key of both Maps: `${location}|${country}`
MakeKey(location, country) ==
    TemplateStr(location) \o sBar \o TemplateStr(country)

\* The problematicKeywords array of isPotentiallyProblematic
problematicKeywords ==
    { <<"w","o","r","l","d">>,
      <<"e","a","r","t","h">>,
      <<"r","e","m","o","t","e">>,
      <<"n","o","m","a","d">>,
      <<"d","i","g","i","t","a","l"," ","n","o","m","a","d">>,
      <<"e","v","e","r","y","w","h","e","r","e">>,
      <<"n","o","w","h","e","r","e">>,
      <<"n","/","a">>,
      <<"t","b","d">>,
      <<"v","a","r","i","o","u","s">> }

\* isPotentiallyProblematic without the keyword list
isPotentiallyProblematic_NullOnly(location) ==
    ~Truthy(location) \/ location = sNull

\* isPotentiallyProblematic with the keywords compared case-sensitively
isPotentiallyProblematic_CaseSensitive(location) ==
    IF ~Truthy(location) \/ location = sNull
    THEN TRUE
    ELSE \E keyword \in problematicKeywords : includes(location, keyword)

\* function isPotentiallyProblematic(location, country)
isPotentiallyProblematic(location) ==
    IF ~Truthy(location) \/ location = sNull
    THEN TRUE
    ELSE LET lowerLocation == toLowerCase(location)
         IN \E keyword \in problematicKeywords : includes(lowerLocation, keyword)

----------------------------------------------------------------------------
(* normalizeLocation, isPotentiallyProblematic and the search query on   *)
(* their own: the inputs are drawn from bounded sets of strings.         *)

\* The longest location is a concatenation of MaxFrags fragments.
MaxFrags == 3
\* The longest city name is a concatenation of MaxCityFrags fragments.
MaxCityFrags == 3

Frags ==
    { <<"X">>,
      <<" ">>,
      <<",">>,
      <<","," ","U","K">>,
      <<","," ","P","o","l","a","n","d">>,
      <<","," ","p","o","l","a","n","d">>,
      <<"G","r","e","a","t","e","r"," ">>,
      <<" ","A","r","e","a">> }

RECURSIVE FragStrings(_, _)
FragStrings(frags, n) ==
    IF n = 0 THEN {<<>>}
    ELSE LET shorter == FragStrings(frags, n - 1)
         IN shorter \cup {s \o f : s \in shorter, f \in frags}

CityFrags == { <<"X">>, <<"Y">>, <<" ","Y">>, <<" ","A","r","e","a">> }

\* City names: non-empty, no leading or trailing whitespace, no comma.
CityNames ==
    {c \in FragStrings(CityFrags, MaxCityFrags) :
        c # <<>> /\ ~IsSpace(c[1]) /\ ~IsSpace(c[Len(c)])}

GreaterCityArea(c) == <<"G","r","e","a","t","e","r"," ">> \o c \o <<" ","A","r","e","a">>

\* Locations written with placeholder terms and with the null marker, in
\* several cases
PlaceholderSamples ==
    { <<"N","U","L","L">>, <<"N","u","l","l">>, <<"X"," ","R","e","m","o","t","e">>, <<"T","B","D">>, <<"n","/","a">>, <<"D","i","g","i","t","a","l"," ","N","o","m","a","d">>, <<"V","a","r","i","o","u","s",","," ","X">> }

NormLocations ==
    {Null, Undefined, sNull, sWorld, <<"W","o","r","l","d">>}
        \cup PlaceholderSamples
        \cup FragStrings(Frags, MaxFrags)
        \cup {GreaterCityArea(c) : c \in CityNames}

NormCountries == {Null, <<>>, sWorld, sGB, <<"P","L">>, <<"U","S">>, <<"Z","Z">>}

\* The variables of the pipeline, at rest
\* No request has reached the server
\* No run of the scripts has left a trace yet
RunIdle ==
    /\ artifactBefore = NoObject /\ finalDataBefore = NoObject
    /\ artifactWrites = 0 /\ stderr = <<>>

NoRequest == [route |-> "none", id |-> <<>>]

ServerIdle ==
    /\ applicantFile = NoObject
    /\ teamData = NoObject /\ applicantData = NoObject
    /\ request = NoRequest /\ response = NoObject /\ nReq = 0
    /\ teamLoaded = FALSE /\ applicantLoaded = FALSE
    /\ teamFirst = NoObject /\ applicantFirst = NoObject
    /\ teamRereads = 0 /\ applicantRereads = 0
    /\ serverUp = FALSE /\ prevResponse = NoObject

PipelineIdle ==
    /\ ServerIdle
    /\ teamFile = <<>> /\ teamFileOk = TRUE
    /\ artifact = NoObject /\ finalData = NoObject
    /\ gpc = "off" /\ locationMap = <<>> /\ problematic = <<>> /\ normal = <<>>
    /\ allLocations = <<>> /\ gi = 0 /\ geocodeResults = <<>>
    /\ successCount = 0 /\ failCount = 0 /\ requests = <<>>
    /\ verificationsNeeded = <<>> /\ vi = 0 /\ mismatches = <<>>
    /\ reverseRequests = <<>>
    /\ lastReverse = NoObject /\ lastEvent = "none"
    /\ eventBeforeRequest = "none"
    /\ mpc = "off" /\ warnings = <<>> /\ processed = 0 /\ skipped = 0 /\ RunIdle

NormInit ==
    /\ nLoc \in NormLocations
    /\ nCountry \in NormCountries
    /\ nOut = Undefined /\ nOut2 = Undefined /\ nQuery = Undefined
    /\ nFlag = Undefined
    /\ npc = "in"
    /\ PipelineIdle

\* STEP 2 of geocodeTeamData on one location: the classification
Classify ==
    /\ npc = "in"
    /\ nFlag' = isPotentiallyProblematic(nLoc)
    /\ npc' = "classified"
    /\ UNCHANGED <<nLoc, nCountry, nOut, nOut2, nQuery>>
    /\ UNCHANGED <<fileVars, geoVars, mergeVars, srvVars, runVars>>

\* const normalizedLocation = normalizeLocation(loc.location, loc.country)
Normalize ==
    /\ npc = "classified"
    /\ nOut' = normalizeLocation(nLoc, nCountry)
    /\ npc' = "normalized"
    /\ UNCHANGED <<nLoc, nCountry, nOut2, nQuery, nFlag>>
    /\ UNCHANGED <<fileVars, geoVars, mergeVars, srvVars, runVars>>

\* const searchQuery = ...
BuildQuery ==
    /\ npc = "normalized"
    /\ nQuery' = searchQuery(nOut, nCountry)
    /\ npc' = "queried"
    /\ UNCHANGED <<nLoc, nCountry, nOut, nOut2, nFlag>>
    /\ UNCHANGED <<fileVars, geoVars, mergeVars, srvVars, runVars>>

\* normalizeLocation applied to its own output, with the same country
NormalizeAgain ==
    /\ npc = "queried"
    /\ nOut2' = normalizeLocation(nOut, nCountry)
    /\ npc' = "again"
    /\ UNCHANGED <<nLoc, nCountry, nOut, nQuery, nFlag>>
    /\ UNCHANGED <<fileVars, geoVars, mergeVars, srvVars, runVars>>

NormNext == Classify \/ Normalize \/ BuildQuery \/ NormalizeAgain

NormSpec == NormInit /\ [][NormNext]_vars

----------------------------------------------------------------------------
(* The pipeline: geocodeTeamData, then processTeamData                     *)

\* The longest teamMembers array of teamJSON.txt
MaxMembers == 2

\* Numbers are written as their decimal text; JSON.stringify / JSON.parse
\* keep a finite number, turn NaN into null and drop an undefined property.
Zero == <<"0">>
IsFiniteNumber(v) == v \notin {Null, Undefined, NaN}
JsonRoundTrip(v) == IF v = NaN THEN Null ELSE v

\* The (location, country) pairs of the scraped records
RawPairs ==
    { [location |-> Null, country |-> <<"c">>],
      [location |-> sWorld, country |-> <<"b","|","c">>],
      [location |-> <<"w","o","r","l","d","|","b">>, country |-> <<"c">>],
      [location |-> <<"a">>, country |-> <<"c">>],
      [location |-> <<"b">>, country |-> Null] }

\* teamJSON.txt: the i-th member has squeakId i and a name of its own
TeamFiles ==
    UNION { { [i \in 1..n |-> [squeakId |-> i, name |-> i,
                               location |-> f[i].location,
                               country |-> f[i].country]] :
                f \in [1..n -> RawPairs] } : n \in 0..MaxMembers }

\* What geocoder.geocode can answer: it throws, or resolves to a list of
\* which only the first element is read
ProviderResults ==
    { [latitude |-> Zero, longitude |-> Zero, formattedAddress |-> <<"p">>],
      [latitude |-> <<"7">>, longitude |-> <<"8">>, formattedAddress |-> <<"q">>],
      [latitude |-> Undefined, longitude |-> <<"8">>, formattedAddress |-> <<"q">>],
      [latitude |-> <<"7">>, longitude |-> NaN, formattedAddress |-> <<"q">>] }

\* What geocoder.reverse can answer
ReverseResults ==
    { [formattedAddress |-> <<"a",","," ","c">>, city |-> <<"a">>],
      [formattedAddress |-> <<"q">>, city |-> Undefined],
      [formattedAddress |-> Undefined, city |-> <<"a">>] }

sNoResults == <<"N","o"," ","r","e","s","u","l","t","s"," ","f","o","u","n","d">>
sRequestError == <<"r","e","q","u","e","s","t"," ","f","a","i","l","e","d">>

\* ---- Map with insertion order: a sequence of entries with a key ----
MapHas(m, key) == \E k \in 1..Len(m) : m[k].key = key
MapIndex(m, key) == CHOOSE k \in 1..Len(m) : m[k].key = key
MapGet(m, key) == m[MapIndex(m, key)]
MapSet(m, key, entry) ==
    IF MapHas(m, key)
    THEN [m EXCEPT ![MapIndex(m, key)] = entry]
    ELSE Append(m, entry)

\* STEP 1: teamMembers.forEach(member => { ... locationMap ... })
RECURSIVE BuildLocationMap(_, _)
BuildLocationMap(teamMembers, n) ==
    IF n = 0 THEN <<>>
    ELSE LET m == BuildLocationMap(teamMembers, n - 1)
             member == teamMembers[n]
             key == MakeKey(member.location, member.country)
             locData == IF MapHas(m, key) THEN MapGet(m, key)
                        ELSE [key |-> key, location |-> member.location,
                              country |-> member.country, count |-> 0,
                              members |-> <<>>]
         IN MapSet(m, key, [locData EXCEPT !.count = @ + 1,
                                           !.members = Append(@, member.name)])

IsProblematicEntry(e) == isPotentiallyProblematic(e.location)
IsNormalEntry(e) == ~isPotentiallyProblematic(e.location)
IsSuccess(r) == r.success

\* The number of entries the verification pass samples: .slice(0, 10)
VerifySample == 10

\* VerificationsNeeded without the slice
VerificationsNeeded_All(results) == SelectSeq(results, IsSuccess)

\* Array.from(geocodeResults.values()).filter(r => r.success).slice(0, 10)
VerificationsNeeded(results) ==
    LET ok == SelectSeq(results, IsSuccess)
    IN SubSeq(ok, 1, IF Len(ok) < VerifySample THEN Len(ok) ELSE VerifySample)

GeoIdle ==
    /\ locationMap = <<>> /\ problematic = <<>> /\ normal = <<>>
    /\ allLocations = <<>> /\ gi = 0 /\ geocodeResults = <<>>
    /\ successCount = 0 /\ failCount = 0 /\ requests = <<>>
    /\ verificationsNeeded = <<>> /\ vi = 0 /\ mismatches = <<>>
    /\ reverseRequests = <<>>
    /\ lastReverse = NoObject /\ lastEvent = "none"
    /\ eventBeforeRequest = "none"

NormOff ==
    /\ nLoc = Null /\ nCountry = Null /\ nOut = Undefined /\ nOut2 = Undefined
    /\ nQuery = Undefined /\ nFlag = Undefined /\ npc = "off"

Init ==
    /\ NormOff
    /\ teamFile \in TeamFiles
    /\ teamFileOk \in BOOLEAN
    /\ artifact = NoObject
    /\ finalData = NoObject
    /\ gpc = "start"
    /\ GeoIdle
    /\ mpc = "idle"
    /\ warnings = <<>> /\ processed = 0 /\ skipped = 0 /\ RunIdle
    /\ ServerIdle

\* geocodeTeamData up to its first await: the read of teamJSON.txt, STEP 1
\* and STEP 2. An unreadable file throws into the catch of the function.
\* The location set with the ordinary locations ahead
OrderLocations_FileOrder(pr, no) == no \o pr

\* const allLocations = [...problematic, ...normal]
OrderLocations(pr, no) == pr \o no

\* The line console.error('❌ Error:', error.message) of the catch block of
\* geocodeTeamData and the line of the catch block of processTeamData
GeocodeError == "Error:"
MergeError == "Error processing data:"

GeoStart ==
    /\ gpc = "start"
    /\ artifactBefore' = artifact
    /\ UNCHANGED <<finalDataBefore, artifactWrites>>
    /\ IF ~teamFileOk
       THEN /\ gpc' = "aborted"
            /\ stderr' = Append(stderr, GeocodeError)
            /\ UNCHANGED <<locationMap, problematic, normal, allLocations, gi,
                           verificationsNeeded, vi>>
       ELSE LET lm == BuildLocationMap(teamFile, Len(teamFile))
                pr == SelectSeq(lm, IsProblematicEntry)
                no == SelectSeq(lm, IsNormalEntry)
            IN /\ locationMap' = lm
               /\ problematic' = pr
               /\ normal' = no
               /\ allLocations' = OrderLocations(pr, no)
               /\ stderr' = stderr
               /\ IF Len(OrderLocations(pr, no)) > 0
                  THEN /\ gpc' = "forward" /\ gi' = 1
                       /\ UNCHANGED <<verificationsNeeded, vi>>
                  ELSE /\ gpc' = "write" /\ gi' = 1
                       /\ verificationsNeeded' = <<>> /\ vi' = 1
    /\ UNCHANGED <<geocodeResults, successCount, failCount, requests,
                   mismatches, reverseRequests, lastReverse, lastEvent,
                   eventBeforeRequest>>
    /\ UNCHANGED <<normVars, fileVars, mergeVars, srvVars>>

\* ForwardEntry with a failed result that carries no error text
ForwardEntry_NoErrorText(loc, outcome, result) ==
    IF outcome = "ok"
    THEN [key |-> loc.key, location |-> loc.location, country |-> loc.country,
          count |-> loc.count, members |-> loc.members,
          geocoded |-> [lat |-> result.latitude, lng |-> result.longitude,
                        formattedAddress |-> result.formattedAddress],
          success |-> TRUE, error |-> Undefined]
    ELSE [key |-> loc.key, location |-> loc.location, country |-> loc.country,
          count |-> loc.count, members |-> loc.members,
          geocoded |-> NoObject,
          success |-> FALSE,
          error |-> Undefined]

\* The result entry written for loc: a first provider result ("ok"), an
\* empty list ("empty") or a thrown request ("throw")
ForwardEntry(loc, outcome, result) ==
    IF outcome = "ok"
    THEN [key |-> loc.key, location |-> loc.location, country |-> loc.country,
          count |-> loc.count, members |-> loc.members,
          geocoded |-> [lat |-> result.latitude, lng |-> result.longitude,
                        formattedAddress |-> result.formattedAddress],
          success |-> TRUE, error |-> Undefined]
    ELSE [key |-> loc.key, location |-> loc.location, country |-> loc.country,
          count |-> loc.count, members |-> loc.members,
          geocoded |-> NoObject,
          success |-> FALSE,
          error |-> IF outcome = "empty" THEN sNoResults ELSE sRequestError]

\* One iteration of the forward loop up to its await delay(1000): the
\* request, the provider's answer and the entry set in geocodeResults
ForwardGeocode ==
    /\ gpc = "forward"
    /\ LET loc == allLocations[gi]
           normalizedLocation == normalizeLocation(loc.location, loc.country)
           query == searchQuery(normalizedLocation, loc.country)
       IN \E outcome \in {"ok", "empty", "throw"} :
             \E result \in ProviderResults :
                /\ outcome # "ok" => result = CHOOSE r \in ProviderResults : TRUE
                /\ requests' = Append(requests,
                      [key |-> loc.key, location |-> loc.location,
                       country |-> loc.country, query |-> query,
                       outcome |-> outcome,
                       result |-> IF outcome = "ok" THEN result ELSE NoObject])
                /\ geocodeResults' =
                       MapSet(geocodeResults, loc.key, ForwardEntry(loc, outcome, result))
                /\ successCount' = IF outcome = "ok" THEN successCount + 1 ELSE successCount
                /\ failCount' = IF outcome = "ok" THEN failCount ELSE failCount + 1
    /\ gpc' = "delay"
    /\ eventBeforeRequest' = lastEvent
    /\ lastEvent' = "forward"
    /\ UNCHANGED <<locationMap, problematic, normal, allLocations, gi,
                   verificationsNeeded, vi, mismatches, reverseRequests,
                   lastReverse>>
    /\ UNCHANGED <<normVars, fileVars, mergeVars, srvVars, runVars>>

\* ForwardDelay leaving the loop after a request that failed
ForwardDelay_StopOnFailure ==
    /\ gpc = "delay"
    /\ gi' = gi + 1
    /\ IF gi + 1 <= Len(allLocations) /\ geocodeResults[Len(geocodeResults)].success
       THEN /\ gpc' = "forward"
            /\ UNCHANGED <<verificationsNeeded, vi>>
       ELSE /\ verificationsNeeded' = VerificationsNeeded(geocodeResults)
            /\ vi' = 1
            /\ gpc' = IF Len(VerificationsNeeded(geocodeResults)) > 0
                      THEN "verify" ELSE "write"
    /\ lastEvent' = "delay"
    /\ UNCHANGED <<locationMap, problematic, normal, allLocations,
                   geocodeResults, successCount, failCount, requests,
                   mismatches, reverseRequests, lastReverse,
                   eventBeforeRequest>>
    /\ UNCHANGED <<normVars, fileVars, mergeVars, srvVars, runVars>>

\* ForwardDelay going on to the next iteration without waiting
ForwardDelay_NoWait ==
    /\ gpc = "delay"
    /\ gi' = gi + 1
    /\ IF gi + 1 <= Len(allLocations)
       THEN /\ gpc' = "forward"
            /\ UNCHANGED <<verificationsNeeded, vi>>
       ELSE /\ verificationsNeeded' = VerificationsNeeded(geocodeResults)
            /\ vi' = 1
            /\ gpc' = IF Len(VerificationsNeeded(geocodeResults)) > 0
                      THEN "verify" ELSE "write"
    /\ UNCHANGED <<locationMap, problematic, normal, allLocations,
                   geocodeResults, successCount, failCount, requests,
                   mismatches, reverseRequests, lastReverse, lastEvent,
                   eventBeforeRequest>>
    /\ UNCHANGED <<normVars, fileVars, mergeVars, srvVars, runVars>>

\* await delay(1000) of the forward loop, i++ and the loop test; after the
\* last iteration, the sample of STEP 4 is taken
ForwardDelay ==
    /\ gpc = "delay"
    /\ gi' = gi + 1
    /\ IF gi + 1 <= Len(allLocations)
       THEN /\ gpc' = "forward"
            /\ UNCHANGED <<verificationsNeeded, vi>>
       ELSE /\ verificationsNeeded' = VerificationsNeeded(geocodeResults)
            /\ vi' = 1
            /\ gpc' = IF Len(VerificationsNeeded(geocodeResults)) > 0
                      THEN "verify" ELSE "write"
    /\ lastEvent' = "delay"
    /\ UNCHANGED <<locationMap, problematic, normal, allLocations,
                   geocodeResults, successCount, failCount, requests,
                   mismatches, reverseRequests, lastReverse,
                   eventBeforeRequest>>
    /\ UNCHANGED <<normVars, fileVars, mergeVars, srvVars, runVars>>

\* the position after iteration vi of the verification loop
AfterVerify(next) == IF next <= Len(verificationsNeeded) THEN "verify" ELSE "write"

\* the empty catch of the verification loop leaving the run
ReverseCatch_Abort(next) == "aborted"

\* } catch (error) { /* Skip verification errors */ }: the loop goes on with
\* the next entry
ReverseCatch(next) == AfterVerify(next)

\* const matches = reverseLower.includes(originalLower) ||
\*                 originalLower.includes(reverse.city?.toLowerCase() || '')
ReverseMatches(location, reverse) ==
    LET originalLower == toLowerCase(location)
        reverseLower == toLowerCase(reverse.formattedAddress)
        cityLower == IF Truthy(reverse.city) THEN toLowerCase(reverse.city) ELSE <<>>
    IN includes(reverseLower, originalLower) \/ includes(originalLower, cityLower)

\* loc.location.toLowerCase() and reverse.formattedAddress.toLowerCase()
\* throw a TypeError on null / undefined
ReverseCheckThrows(location, reverse) ==
    ~IsString(location) \/ ~IsString(reverse.formattedAddress)

\* One iteration of the verification loop. A request that throws, or a
\* TypeError in the comparison, lands in the empty catch: the iteration ends
\* without await delay(1000).
ReverseGeocode ==
    /\ gpc = "verify"
    /\ LET loc == verificationsNeeded[vi]
       IN /\ reverseRequests' = Append(reverseRequests,
                [key |-> loc.key, lat |-> loc.geocoded.lat, lon |-> loc.geocoded.lng])
          /\ \E outcome \in {"ok", "empty", "throw"} :
             \E reverse \in ReverseResults :
                /\ outcome # "ok" => reverse = CHOOSE r \in ReverseResults : TRUE
                /\ IF outcome = "throw"
                      \/ (outcome = "ok" /\ ReverseCheckThrows(loc.location, reverse))
                   THEN /\ vi' = vi + 1
                        /\ gpc' = ReverseCatch(vi + 1)
                        /\ lastReverse' =
                              IF outcome = "throw" THEN NoObject
                              ELSE [outcome |-> outcome, reverse |-> NoObject,
                                    verdict |-> "none"]
                        /\ UNCHANGED mismatches
                   ELSE /\ gpc' = "vdelay"
                        /\ lastReverse' =
                              [outcome |-> outcome,
                               reverse |-> IF outcome = "ok" THEN reverse
                                           ELSE NoObject,
                               verdict |->
                                  IF outcome # "ok" THEN "none"
                                  ELSE IF ReverseMatches(loc.location, reverse)
                                       THEN "match" ELSE "mismatch"]
                        /\ UNCHANGED vi
                        /\ mismatches' =
                             IF outcome = "ok" /\ ~ReverseMatches(loc.location, reverse)
                             THEN Append(mismatches,
                                    [original |-> loc.location,
                                     originalCountry |-> loc.country,
                                     coordinates |-> TemplateStr(loc.geocoded.lat)
                                         \o sCommaSp \o TemplateStr(loc.geocoded.lng),
                                     reverseGeocodedTo |-> reverse.formattedAddress,
                                     membersAffected |-> loc.count])
                             ELSE mismatches
    /\ eventBeforeRequest' = lastEvent
    /\ lastEvent' = "reverse"
    /\ UNCHANGED <<locationMap, problematic, normal, allLocations, gi,
                   geocodeResults, successCount, failCount, requests,
                   verificationsNeeded>>
    /\ UNCHANGED <<normVars, fileVars, mergeVars, srvVars, runVars>>

\* await delay(1000) of the verification loop, i++ and the loop test
ReverseDelay ==
    /\ gpc = "vdelay"
    /\ vi' = vi + 1
    /\ gpc' = AfterVerify(vi + 1)
    /\ lastReverse' = NoObject
    /\ lastEvent' = "delay"
    /\ UNCHANGED <<locationMap, problematic, normal, allLocations, gi,
                   geocodeResults, successCount, failCount, requests,
                   verificationsNeeded, mismatches, reverseRequests,
                   eventBeforeRequest>>
    /\ UNCHANGED <<normVars, fileVars, mergeVars, srvVars, runVars>>

\* One result of allResults as JSON.stringify writes it and JSON.parse
\* reads it back
JsonResult(r) ==
    IF r.geocoded = NoObject THEN r
    ELSE [r EXCEPT !.geocoded.lat = JsonRoundTrip(@),
                   !.geocoded.lng = JsonRoundTrip(@)]

StripEntry(e) ==
    [location |-> e.location, country |-> e.country, count |-> e.count,
     members |-> e.members]

IsFailure(r) == ~r.success

\* The artifact whose summary counts every result as successful
ArtifactOf_AllSuccessful(all, prob, results, mism, succ, fail) ==
    [summary |-> [total |-> Len(all), successful |-> Len(results),
                  failed |-> fail, problematic |-> Len(prob),
                  verificationMismatches |-> Len(mism)],
     problematicLocations |-> [k \in 1..Len(prob) |-> StripEntry(prob[k])],
     failedGeocode |->
        LET f == SelectSeq(results, IsFailure)
        IN [k \in 1..Len(f) |-> [location |-> f[k].location,
                                 country |-> f[k].country, error |-> f[k].error,
                                 count |-> f[k].count, members |-> f[k].members]],
     verificationMismatches |-> mism,
     allResults |-> [k \in 1..Len(results) |-> JsonResult(results[k])]]

\* fs.writeFileSync(outputPath, JSON.stringify({summary, ...}))
ArtifactOf(all, prob, results, mism, succ, fail) ==
    [summary |-> [total |-> Len(all), successful |-> succ, failed |-> fail,
                  problematic |-> Len(prob),
                  verificationMismatches |-> Len(mism)],
     problematicLocations |-> [k \in 1..Len(prob) |-> StripEntry(prob[k])],
     failedGeocode |->
        LET f == SelectSeq(results, IsFailure)
        IN [k \in 1..Len(f) |-> [location |-> f[k].location,
                                 country |-> f[k].country, error |-> f[k].error,
                                 count |-> f[k].count, members |-> f[k].members]],
     verificationMismatches |-> mism,
     allResults |-> [k \in 1..Len(results) |-> JsonResult(results[k])]]

\* STEP 5 and the write of geocode_results.json
WriteArtifact ==
    /\ gpc = "write"
    /\ artifact' = ArtifactOf(allLocations, problematic, geocodeResults,
                              mismatches, successCount, failCount)
    /\ gpc' = "done"
    /\ artifactWrites' = artifactWrites + 1
    /\ UNCHANGED <<artifactBefore, finalDataBefore, stderr>>
    /\ UNCHANGED <<teamFile, teamFileOk, finalData>>
    /\ UNCHANGED <<locationMap, problematic, normal, allLocations, gi,
                   geocodeResults, successCount, failCount, requests,
                   verificationsNeeded, vi, mismatches, reverseRequests,
                   lastEvent, eventBeforeRequest>>
    /\ lastReverse' = NoObject
    /\ UNCHANGED <<normVars, mergeVars, srvVars>>

----------------------------------------------------------------------------
(* processTeamData *)

\* geocodeResults.allResults.forEach(result => { if (result.success &&
\* result.geocoded) locationMap.set(key, {...}) }): the lookup map after the
\* first n results
RECURSIVE BuildLookup(_, _)
BuildLookup(allResults, n) ==
    IF n = 0 THEN <<>>
    ELSE LET m == BuildLookup(allResults, n - 1)
             result == allResults[n]
         IN IF result.success /\ result.geocoded # NoObject
            THEN LET key == MakeKey(result.location, result.country)
                 IN MapSet(m, key,
                        [key |-> key,
                         latitude |-> result.geocoded.lat,
                         longitude |-> result.geocoded.lng,
                         formattedAddress |-> result.geocoded.formattedAddress])
            ELSE m

\* const coords = locationMap.get(`${member.location}|${member.country}`)
HasCoords(lookup, member) ==
    MapHas(lookup, MakeKey(member.location, member.country))

\* The object returned for a member that has coordinates, as it is read
\* back from team.json
EnrichedMember(lookup, member) ==
    LET coords == MapGet(lookup, MakeKey(member.location, member.country))
    IN [id |-> member.squeakId, name |-> member.name,
        location |-> member.location, country |-> member.country,
        latitude |-> JsonRoundTrip(coords.latitude),
        longitude |-> JsonRoundTrip(coords.longitude),
        formattedAddress |-> coords.formattedAddress]

\* teamMembers.map(...).filter(m => m !== null) over the first n members
RECURSIVE ProcessedMembers(_, _, _)
ProcessedMembers(lookup, teamMembers, n) ==
    IF n = 0 THEN <<>>
    ELSE LET rest == ProcessedMembers(lookup, teamMembers, n - 1)
         IN IF HasCoords(lookup, teamMembers[n])
            THEN Append(rest, EnrichedMember(lookup, teamMembers[n]))
            ELSE rest

\* A Merger that warns about every one of the first n members
Warnings_All(lookup, teamMembers, n) ==
    [k \in 1..n |-> [name |-> teamMembers[k].name,
                     location |-> teamMembers[k].location,
                     country |-> teamMembers[k].country]]

\* the console.warn lines for the first n members
RECURSIVE Warnings(_, _, _)
Warnings(lookup, teamMembers, n) ==
    IF n = 0 THEN <<>>
    ELSE LET rest == Warnings(lookup, teamMembers, n - 1)
             member == teamMembers[n]
         IN IF HasCoords(lookup, member)
            THEN rest
            ELSE Append(rest, [name |-> member.name,
                               location |-> member.location,
                               country |-> member.country])

\* One run of processTeamData (synchronous): a read that fails throws into
\* the catch of the function and nothing is written
\* The Merger that aborts only when the artifact cannot be read
MergeAborts_ArtifactOnly(teamOk, art) == ReadThrows(art) \/ art = JsonNull

\* The reads at the head of the try block throw when team.json or
\* geocode_results.json is missing or is not JSON; the text null parses and
\* geocodeResults.allResults then throws a TypeError into the same catch
MergeAborts(teamOk, art) == ~teamOk \/ ReadThrows(art) \/ art = JsonNull

Merge ==
    /\ mpc = "idle"
    /\ finalDataBefore' = finalData
    /\ UNCHANGED <<artifactBefore, artifactWrites>>
    /\ IF MergeAborts(teamFileOk, artifact)
       THEN /\ mpc' = "failed"
            /\ stderr' = Append(stderr, MergeError)
            /\ UNCHANGED <<finalData, warnings, processed, skipped>>
       ELSE LET lookup == BuildLookup(artifact.allResults, Len(artifact.allResults))
                processedMembers == ProcessedMembers(lookup, teamFile, Len(teamFile))
            IN /\ warnings' = Warnings(lookup, teamFile, Len(teamFile))
               /\ processed' = Len(processedMembers)
               /\ skipped' = Len(Warnings(lookup, teamFile, Len(teamFile)))
               /\ finalData' = [metadata |-> [totalMembers |-> Len(processedMembers)],
                                team |-> processedMembers]
               /\ mpc' = "done"
               /\ stderr' = stderr
    /\ UNCHANGED <<teamFile, teamFileOk, artifact>>
    /\ UNCHANGED <<normVars, geoVars, srvVars>>

Next ==
    \/ GeoStart
    \/ ForwardGeocode
    \/ ForwardDelay
    \/ ReverseGeocode
    \/ ReverseDelay
    \/ WriteArtifact
    \/ Merge

Spec == Init /\ [][Next]_vars

-----------------------------------------------------------------------------
(* The two scripts run again over the files of an earlier run: the        *)
(* artifact and the final dataset may exist already, may be damaged, and  *)
(* the geocoding run may be stopped before its end.                        *)

\* The raw records of the earlier run and what it left on the disk
OldTeam ==
    <<[squeakId |-> 9, name |-> 9, location |-> <<"z">>, country |-> <<"c">>]>>
OldLocations == BuildLocationMap(OldTeam, Len(OldTeam))
OldArtifact ==
    ArtifactOf(OldLocations, <<>>,
               <<ForwardEntry(OldLocations[1], "ok",
                    [latitude |-> <<"7">>, longitude |-> <<"8">>,
                     formattedAddress |-> <<"q">>])>>,
               <<>>, 1, 0)
OldData == [metadata |-> [totalMembers |-> 0], team |-> <<>>]

\* teamJSON.txt of the new run
RerunTeams ==
    { <<>>,
      <<[squeakId |-> 1, name |-> 1, location |-> <<"a">>, country |-> <<"c">>]>>,
      <<[squeakId |-> 1, name |-> 1, location |-> <<"a">>, country |-> <<"c">>],
        [squeakId |-> 2, name |-> 2, location |-> Null, country |-> <<"c">>]>>,
      <<[squeakId |-> 1, name |-> 1, location |-> <<"z">>, country |-> <<"c">>],
        [squeakId |-> 2, name |-> 2, location |-> <<"b">>, country |-> Null]>> }

RerunInit ==
    /\ NormOff
    /\ teamFile \in RerunTeams
    /\ teamFileOk \in BOOLEAN
    /\ artifact \in {NoObject, Unparsable, JsonNull, OldArtifact}
    /\ finalData \in {NoObject, OldData}
    /\ gpc = "start"
    /\ GeoIdle
    /\ mpc = "idle"
    /\ warnings = <<>> /\ processed = 0 /\ skipped = 0 /\ RunIdle
    /\ ServerIdle

\* A stop of the process that flushes what it has to geocode_results.json
Interrupt_Flush ==
    /\ gpc \in {"forward", "delay", "verify", "vdelay", "write"}
    /\ gpc' = "killed"
    /\ artifact' = ArtifactOf(allLocations, problematic, geocodeResults,
                              mismatches, successCount, failCount)
    /\ artifactWrites' = artifactWrites + 1
    /\ UNCHANGED <<artifactBefore, finalDataBefore, stderr>>
    /\ UNCHANGED <<teamFile, teamFileOk, finalData>>
    /\ UNCHANGED <<locationMap, problematic, normal, allLocations, gi,
                   geocodeResults, successCount, failCount, requests,
                   verificationsNeeded, vi, mismatches, reverseRequests,
                   lastReverse, lastEvent, eventBeforeRequest>>
    /\ UNCHANGED <<normVars, mergeVars, srvVars>>

\* The process is stopped during an await of one of the two loops, or
\* before the write: geocodeTeamData holds its results in memory only and
\* the one fs.writeFileSync is the last statement of the try block
Interrupt ==
    /\ gpc \in {"forward", "delay", "verify", "vdelay", "write"}
    /\ gpc' = "killed"
    /\ UNCHANGED <<locationMap, problematic, normal, allLocations, gi,
                   geocodeResults, successCount, failCount, requests,
                   verificationsNeeded, vi, mismatches, reverseRequests,
                   lastReverse, lastEvent, eventBeforeRequest>>
    /\ UNCHANGED <<normVars, fileVars, mergeVars, srvVars, runVars>>

RerunNext ==
    \/ GeoStart
    \/ ForwardGeocode
    \/ ForwardDelay
    \/ ReverseGeocode
    \/ ReverseDelay
    \/ WriteArtifact
    \/ Merge
    \/ Interrupt

RerunSpec == RerunInit /\ [][RerunNext]_vars

----------------------------------------------------------------------------
(* The verification pass on a long run: the forward loop has issued its   *)
(* last request for a team of up to MaxResults distinct locations, more   *)
(* than the pass samples.                                                  *)

\* The largest number of unique locations of such a run
MaxResults == 11

\* k times the character c
RECURSIVE Repeat(_, _)
Repeat(c, k) == IF k = 0 THEN <<>> ELSE Append(Repeat(c, k - 1), c)

\* The k-th location: "a", "bb", "aaa", ... (the reverse answers match the
\* "a" locations and not the "b" ones)
SampleLocation(k) == Repeat(IF k % 2 = 1 THEN "a" ELSE "b", k)

\* teamJSON.txt with n members at n distinct locations
SampleTeam(n) ==
    [k \in 1..n |-> [squeakId |-> k, name |-> k,
                     location |-> SampleLocation(k), country |-> <<"c">>]]

\* The answer to the k-th forward request: an empty list for the request
\* failedAt, a first result otherwise
SampleOutcome(k, failedAt) == IF k = failedAt THEN "empty" ELSE "ok"
SampleResult ==
    [latitude |-> <<"7">>, longitude |-> <<"8">>, formattedAddress |-> <<"q">>]

\* geocodeTeamData after the last request of its forward loop, at the
\* await delay(1000) that follows it
VerifyInit ==
    \E n \in 1..MaxResults : \E failedAt \in 0..n :
        LET lm == BuildLocationMap(SampleTeam(n), n)
            pr == SelectSeq(lm, IsProblematicEntry)
            no == SelectSeq(lm, IsNormalEntry)
            all == pr \o no
        IN /\ NormOff
           /\ teamFile = SampleTeam(n) /\ teamFileOk = TRUE
           /\ artifact = NoObject /\ finalData = NoObject
           /\ locationMap = lm /\ problematic = pr /\ normal = no
           /\ allLocations = all
           /\ gi = n
           /\ requests =
                 [k \in 1..n |->
                    [key |-> all[k].key, location |-> all[k].location,
                     country |-> all[k].country,
                     query |-> searchQuery(
                         normalizeLocation(all[k].location, all[k].country),
                         all[k].country),
                     outcome |-> SampleOutcome(k, failedAt),
                     result |-> IF k = failedAt THEN NoObject ELSE SampleResult]]
           /\ geocodeResults =
                 [k \in 1..n |->
                    ForwardEntry(all[k], SampleOutcome(k, failedAt), SampleResult)]
           /\ successCount = (IF failedAt = 0 THEN n ELSE n - 1)
           /\ failCount = (IF failedAt = 0 THEN 0 ELSE 1)
           /\ verificationsNeeded = <<>> /\ vi = 0
           /\ mismatches = <<>> /\ reverseRequests = <<>>
           /\ lastReverse = NoObject
           /\ lastEvent = "forward"
           /\ eventBeforeRequest = (IF n = 1 THEN "none" ELSE "delay")
           /\ gpc = "delay"
           /\ mpc = "off" /\ warnings = <<>> /\ processed = 0 /\ skipped = 0 /\ RunIdle
           /\ ServerIdle

VerifyNext ==
    \/ ForwardDelay
    \/ ReverseGeocode
    \/ ReverseDelay
    \/ WriteArtifact

VerifySpec == VerifyInit /\ [][VerifyNext]_vars

----------------------------------------------------------------------------
(* The server: loadTeamData, loadApplicantData and the three routes *)

\* The largest number of requests of a run of the server
MaxRequests == 3

\* An EnrichedMember of data/team.json
ServedMember(i) ==
    [id |-> i, name |-> i, location |-> <<"a">>, country |-> <<"c">>,
     latitude |-> <<"7">>, longitude |-> <<"8">>, formattedAddress |-> <<"q">>]

\* data/team.json as processTeamData writes it, for the member ids
Dataset(memberIds) ==
    [metadata |-> [totalMembers |-> Len(memberIds)],
     team |-> [k \in 1..Len(memberIds) |-> ServedMember(memberIds[k])]]

TeamJsonFiles ==
    {NoObject, Unparsable, JsonNull,
     Dataset(<<>>), Dataset(<<1>>), Dataset(<<1, 12>>)}

ApplicantJsonFiles ==
    {NoObject, Unparsable, JsonNull, [name |-> <<"p">>], [name |-> <<"r">>]}

\* The :id parameters of the requests
RequestIds ==
    { <<"1">>,
      <<"1","2">>,
      <<"7">>,
      <<"1","2","a","b","c">>,
      <<"a","b","c">>,
      <<" ","1","2">>,
      <<"0","1","2">>,
      <<"+","1","2">>,
      <<"-","1">>,
      <<"0","x","C">>,
      <<"1","2",".","9">> }

\* ---- parseInt(string) ----
IsDigit(c, radix) ==
    \/ c \in {"0","1","2","3","4","5","6","7","8","9"}
    \/ radix = 16 /\ c \in {"a","b","c","d","e","f","A","B","C","D","E","F"}

DigitValue(c) ==
    CASE c = "0" -> 0 [] c = "1" -> 1 [] c = "2" -> 2 [] c = "3" -> 3
      [] c = "4" -> 4 [] c = "5" -> 5 [] c = "6" -> 6 [] c = "7" -> 7
      [] c = "8" -> 8 [] c = "9" -> 9
      [] c \in {"a","A"} -> 10 [] c \in {"b","B"} -> 11
      [] c \in {"c","C"} -> 12 [] c \in {"d","D"} -> 13
      [] c \in {"e","E"} -> 14 [] c \in {"f","F"} -> 15

\* the first index from k on that holds no whitespace
RECURSIVE SkipSpace(_, _)
SkipSpace(s, k) ==
    IF k <= Len(s) /\ IsSpace(s[k]) THEN SkipSpace(s, k + 1) ELSE k

\* the first index from k on that holds no digit of the radix
RECURSIVE DigitsEnd(_, _, _)
DigitsEnd(s, k, radix) ==
    IF k <= Len(s) /\ IsDigit(s[k], radix) THEN DigitsEnd(s, k + 1, radix) ELSE k

\* the number written by the digits s[from..to-1]
RECURSIVE DigitsValue(_, _, _, _)
DigitsValue(s, from, to, radix) ==
    IF to <= from THEN 0
    ELSE DigitsValue(s, from, to - 1, radix) * radix + DigitValue(s[to - 1])

\* parseInt: leading whitespace is skipped, a sign is read, 0x / 0X selects
\* radix 16, and the longest run of digits is the number; without a digit
\* the result is NaN
ParseInt(s) ==
    LET a == SkipSpace(s, 1)
        negative == a <= Len(s) /\ s[a] = "-"
        b == IF a <= Len(s) /\ s[a] \in {"+", "-"} THEN a + 1 ELSE a
        hex == b + 1 <= Len(s) /\ s[b] = "0" /\ s[b + 1] \in {"x", "X"}
        radix == IF hex THEN 16 ELSE 10
        c == IF hex THEN b + 2 ELSE b
        d == DigitsEnd(s, c, radix)
    IN IF d = c
       THEN [isNaN |-> TRUE, value |-> 0]
       ELSE [isNaN |-> FALSE,
             value |-> IF negative THEN 0 - DigitsValue(s, c, d, radix)
                       ELSE DigitsValue(s, c, d, radix)]

\* m.id === parseInt(id)
IdMatches(m, parsed) == ~parsed.isNaN /\ m.id = parsed.value

\* data.team.find(m => m.id === parseInt(id)): the index of the first match,
\* 0 for undefined
FindMember(team, id) ==
    LET parsed == ParseInt(id)
        hits == {k \in 1..Len(team) : IdMatches(team[k], parsed)}
    IN IF hits = {} THEN 0
       ELSE CHOOSE k \in hits : \A j \in hits : k <= j

\* ---- replies ----
\* The paths of the two backing files
teamDataPath == "data/team.json"
applicantDataPath == "data/applicant.json"

\* error.message of what the handler throws: readFileSync on a missing file
\* (ENOENT, with the path), JSON.parse on text that is not JSON, and the
\* read of a property of null
ErrorMessage(file, path) ==
    IF file = NoObject THEN <<"ENOENT: no such file or directory, open", path>>
    ELSE IF file = Unparsable THEN <<"Unexpected token in JSON", path>>
    ELSE <<"Cannot read properties of null", path>>

\* A rejected handler answered as a missing resource
ThrownReply_NotFound(message) ==
    [status |-> 404, thrown |-> TRUE, success |-> FALSE, data |-> NoObject,
     error |-> "Not Found", message |-> message]

\* the reply Fastify sends when the async handler rejects: no error handler
\* is set, the error has no statusCode, so the default handler answers 500
\* with the message of the error
ThrownReply(message) ==
    [status |-> 500, thrown |-> TRUE, success |-> FALSE, data |-> NoObject,
     error |-> "Internal Server Error", message |-> message]
OkReply(data) == [status |-> 200, thrown |-> FALSE, success |-> TRUE,
                  data |-> data]
\* reply.code(404).send({success: false, error: 'Team member not found'})
NotFoundReply == [status |-> 404, thrown |-> FALSE, success |-> FALSE,
                  data |-> NoObject]

ServerInit ==
    /\ NormOff
    /\ teamFile = <<>> /\ teamFileOk = TRUE /\ artifact = NoObject
    /\ gpc = "off" /\ GeoIdle
    /\ mpc = "off" /\ warnings = <<>> /\ processed = 0 /\ skipped = 0 /\ RunIdle
    /\ finalData \in TeamJsonFiles
    /\ applicantFile \in ApplicantJsonFiles
    /\ teamData = NoObject /\ applicantData = NoObject
    /\ request = NoRequest /\ response = NoObject /\ nReq = 0
    /\ teamLoaded = FALSE /\ applicantLoaded = FALSE
    /\ teamFirst = NoObject /\ applicantFirst = NoObject
    /\ teamRereads = 0 /\ applicantRereads = 0
    /\ serverUp \in BOOLEAN /\ prevResponse = NoObject

\* The SRV variables a request to the team routes leaves alone, and those
\* a request to the applicant route leaves alone
applicantSide == <<applicantFile, applicantData, applicantLoaded,
                   applicantFirst, applicantRereads>>
teamSide == <<teamData, teamLoaded, teamFirst, teamRereads>>

\* if (!cache) { ... }: the load goes to the disk
ReadsDisk(cache) == cache = NoObject

\* the load throws: the file is read and it is missing or not JSON
LoadThrows(cache, file) == ReadsDisk(cache) /\ ReadThrows(file)

\* what the load returns when it does not throw
Loaded(cache, file) == IF ReadsDisk(cache) THEN ParseFile(file) ELSE cache

\* loadTeamData(): the module-level cache after the call, with the record
\* of the reads
LoadTeamData ==
    /\ teamData' = IF LoadThrows(teamData, finalData) THEN teamData
                    ELSE Loaded(teamData, finalData)
    /\ teamLoaded' = (teamLoaded \/ (ReadsDisk(teamData) /\ ~ReadThrows(finalData)))
    /\ teamFirst' = IF ~teamLoaded /\ ReadsDisk(teamData) /\ ~ReadThrows(finalData)
                     THEN ParseFile(finalData) ELSE teamFirst
    /\ teamRereads' = IF teamLoaded /\ ReadsDisk(teamData)
                       THEN teamRereads + 1 ELSE teamRereads

\* loadApplicantData()
LoadApplicantData ==
    /\ applicantData' = IF LoadThrows(applicantData, applicantFile) THEN applicantData
                         ELSE Loaded(applicantData, applicantFile)
    /\ applicantLoaded' =
          (applicantLoaded \/ (ReadsDisk(applicantData) /\ ~ReadThrows(applicantFile)))
    /\ applicantFirst' =
          IF ~applicantLoaded /\ ReadsDisk(applicantData) /\ ~ReadThrows(applicantFile)
          THEN ParseFile(applicantFile) ELSE applicantFirst
    /\ applicantRereads' = IF applicantLoaded /\ ReadsDisk(applicantData)
                            THEN applicantRereads + 1 ELSE applicantRereads

\* GET /applicant
GetApplicant ==
    /\ serverUp
    /\ nReq < MaxRequests
    /\ nReq' = nReq + 1
    /\ prevResponse' = response
    /\ UNCHANGED serverUp
    /\ request' = [route |-> "applicant", id |-> <<>>]
    /\ LoadApplicantData
    /\ response' = IF LoadThrows(applicantData, applicantFile)
                    THEN ThrownReply(ErrorMessage(applicantFile, applicantDataPath))
                    ELSE OkReply(Loaded(applicantData, applicantFile))
    /\ UNCHANGED teamSide
    /\ UNCHANGED applicantFile
    /\ UNCHANGED <<normVars, fileVars, geoVars, mergeVars, runVars>>

\* GET /team: data.metadata of null is a TypeError
GetTeam ==
    /\ serverUp
    /\ nReq < MaxRequests
    /\ nReq' = nReq + 1
    /\ prevResponse' = response
    /\ UNCHANGED serverUp
    /\ request' = [route |-> "team", id |-> <<>>]
    /\ LoadTeamData
    /\ response' =
          IF LoadThrows(teamData, finalData)
                THEN ThrownReply(ErrorMessage(finalData, teamDataPath))
          ELSE LET data == Loaded(teamData, finalData)
               IN IF data = NoObject
                     THEN ThrownReply(ErrorMessage(JsonNull, teamDataPath))
                  ELSE OkReply([metadata |-> data.metadata, team |-> data.team])
    /\ UNCHANGED applicantSide
    /\ UNCHANGED <<normVars, fileVars, geoVars, mergeVars, runVars>>

\* GET /team/:id
GetTeamById ==
    /\ serverUp
    /\ nReq < MaxRequests
    /\ nReq' = nReq + 1
    /\ prevResponse' = response
    /\ UNCHANGED serverUp
    /\ \E id \in RequestIds :
          /\ request' = [route |-> "team/:id", id |-> id]
          /\ response' =
                IF LoadThrows(teamData, finalData)
                THEN ThrownReply(ErrorMessage(finalData, teamDataPath))
                ELSE LET data == Loaded(teamData, finalData)
                     IN IF data = NoObject
                     THEN ThrownReply(ErrorMessage(JsonNull, teamDataPath))
                        ELSE LET member == FindMember(data.team, id)
                             IN IF member = 0 THEN NotFoundReply
                                ELSE OkReply(data.team[member])
    /\ LoadTeamData
    /\ UNCHANGED applicantSide
    /\ UNCHANGED <<normVars, fileVars, geoVars, mergeVars, runVars>>

\* data/team.json is written anew (processTeamData run again), removed or
\* damaged while the server runs
ReplaceTeamFile ==
    /\ \E file \in TeamJsonFiles : file # finalData /\ finalData' = file
    /\ UNCHANGED <<teamFile, teamFileOk, artifact>>
    /\ UNCHANGED <<normVars, geoVars, mergeVars, srvVars, runVars>>

\* data/applicant.json is edited, removed or damaged while the server runs
ReplaceApplicantFile ==
    /\ \E file \in ApplicantJsonFiles : file # applicantFile /\ applicantFile' = file
    /\ UNCHANGED <<teamData, applicantData, request, response, nReq,
                   teamLoaded, applicantLoaded, teamFirst, applicantFirst,
                   teamRereads, applicantRereads, serverUp, prevResponse>>
    /\ UNCHANGED <<normVars, fileVars, geoVars, mergeVars, runVars>>

ServerNext ==
    \/ GetApplicant
    \/ GetTeam
    \/ GetTeamById
    \/ ReplaceTeamFile
    \/ ReplaceApplicantFile

ServerSpec == ServerInit /\ [][ServerNext]_vars

----------------------------------------------------------------------------
(* Properties of the Merger and of the final dataset (Spec) *)

Team == finalData.team
AllResults == artifact.allResults

SamePair(x, y) == x.location = y.location /\ x.country = y.country

\* the successful results of the artifact whose (location, country) is that
\* of x
OwnResults(x) ==
    {j \in 1..Len(AllResults) : AllResults[j].success /\ SamePair(AllResults[j], x)}

\* the successful results of the artifact that the Merger joins to x
JoinedResults(x) ==
    {j \in 1..Len(AllResults) :
        /\ AllResults[j].success
        /\ MakeKey(AllResults[j].location, AllResults[j].country)
              = MakeKey(x.location, x.country)}

\* C1: every EnrichedMember has exactly the (lat, lng) of the successful
\* GeocodeResult whose (location, country) is the member's own.
C1_CoordsFromOwnResult ==
    mpc = "done" =>
        \A k \in 1..Len(Team) :
            \E j \in OwnResults(Team[k]) :
                /\ Team[k].latitude = AllResults[j].geocoded.lat
                /\ Team[k].longitude = AllResults[j].geocoded.lng

\* C2: a raw record whose (location, country) has no successful
\* GeocodeResult (a failed one, or none at all) yields no EnrichedMember and
\* is named in a warning.
C2_NoResultNoMember ==
    mpc = "done" =>
        \A i \in 1..Len(teamFile) :
            OwnResults(teamFile[i]) = {} =>
                /\ \A k \in 1..Len(Team) : Team[k].id # teamFile[i].squeakId
                /\ \E w \in 1..Len(warnings) :
                      /\ warnings[w].name = teamFile[i].name
                      /\ SamePair(warnings[w], teamFile[i])

\* C3: every EnrichedMember of the final dataset has a non-null, finite
\* latitude and longitude.
C3_FiniteCoordinates ==
    mpc = "done" =>
        \A k \in 1..Len(Team) :
            IsFiniteNumber(Team[k].latitude) /\ IsFiniteNumber(Team[k].longitude)

\* C4: no EnrichedMember has coordinates (0,0), or coordinates resolved with
\* the sentinel query, unless its own location is empty, null, the
\* null-marker or "world".
C4_SentinelOnlyForSentinelInput ==
    mpc = "done" =>
        \A k \in 1..Len(Team) :
            (\/ (Team[k].latitude = Zero /\ Team[k].longitude = Zero)
             \/ \E j \in JoinedResults(Team[k]) :
                   normalizeLocation(AllResults[j].location, AllResults[j].country)
                       = sNorthPole)
            => IsSentinelInput(Team[k].location)

\* the forward loop has ended
ForwardDone == gpc \in {"verify", "vdelay", "write", "done"}

\* C5: one forward-geocode request per unique LocationKey of the location
\* set: never two for one key, the requests follow allLocations one by one
\* whatever the earlier answers were, and when the loop has ended every key
\* of the location set, problematic or not, has had exactly one request.
C5_OneRequestPerKey ==
    /\ \A a, b \in 1..Len(requests) :
          (requests[a].key = requests[b].key \/ SamePair(requests[a], requests[b]))
              => a = b
    /\ Len(requests) <= Len(allLocations)
    /\ \A k \in 1..Len(requests) : requests[k].key = allLocations[k].key
    /\ gpc = "forward" => Len(requests) = gi - 1
    /\ ForwardDone =>
          \A e \in 1..Len(locationMap) :
              Cardinality({k \in 1..Len(requests) :
                              requests[k].key = locationMap[e].key}) = 1

\* C5 witness: a finished forward loop in which the first request failed,
\* a later request was still issued, and a problematic key was requested.
C5_Witness ==
    /\ ForwardDone
    /\ Len(requests) >= 2
    /\ ~geocodeResults[1].success
    /\ isPotentiallyProblematic(requests[1].location)
    /\ geocodeResults[2].success

\* C6: the location set holds each (location, country) pair of the raw
\* records exactly once, and two members with the same pair have the same
\* coordinates in the final dataset.
C6_EachPairOnce ==
    /\ gpc \notin {"start", "aborted"} =>
          \A i \in 1..Len(teamFile) :
              Cardinality({e \in 1..Len(locationMap) :
                              SamePair(locationMap[e], teamFile[i])}) = 1
    /\ mpc = "done" =>
          \A a, b \in 1..Len(Team) :
              SamePair(Team[a], Team[b]) =>
                  /\ Team[a].latitude = Team[b].latitude
                  /\ Team[a].longitude = Team[b].longitude

----------------------------------------------------------------------------
(* Properties of normalizeLocation and of the search query (NormSpec) *)

\* C7: normalizeLocation is idempotent.
C7_Idempotent == npc = "again" => nOut2 = nOut

\* C8: normalizeLocation returns a non-empty search string for every input.
C8_NonEmpty == npc \in {"normalized", "queried", "again"} => nOut # <<>>

\* C9: "Greater C Area" with country K normalizes to C and the query is
\* "C, K", or C alone when the country is absent or "world".
C9_GreaterCityArea ==
    npc \in {"queried", "again"} =>
        \A c \in CityNames :
            nLoc = GreaterCityArea(c) =>
                /\ nOut = c
                /\ nQuery = IF ~Truthy(nCountry) \/ nCountry = sWorld
                            THEN c ELSE c \o sCommaSp \o nCountry

\* the country-name rule applies to the string pre: it holds a comma and
\* the table maps the country code to a name that appears in it
\* (compared case-insensitively)
CountryRuleApplies(pre, country) ==
    /\ includes(pre, sComma)
    /\ countryNames(country) # Undefined
    /\ includes(toLowerCase(pre), toLowerCase(countryNames(country)))

\* C10 as stated: when the rule applies the result is the text before the
\* first comma, and otherwise the rule leaves the string unchanged.
C10_TextBeforeFirstComma ==
    (npc = "normalized" /\ ~IsSentinelInput(nLoc)) =>
        LET pre == BeforeCountryRule(nLoc, nCountry)
        IN nOut = IF CountryRuleApplies(pre, nCountry)
                  THEN splitCommaFirst(pre) ELSE pre

\* C10 amended: when the rule applies the result is the text before the
\* first comma with the surrounding whitespace trimmed, and otherwise the
\* rule leaves the string unchanged.
C10_TrimmedTextBeforeFirstComma ==
    (npc = "normalized" /\ ~IsSentinelInput(nLoc)) =>
        LET pre == BeforeCountryRule(nLoc, nCountry)
        IN nOut = IF CountryRuleApplies(pre, nCountry)
                  THEN trim(splitCommaFirst(pre)) ELSE pre

\* C10 witness: the rule has cut a location at its first comma, the name
\* being written in another case than in the table.
C10_Witness ==
    /\ npc = "normalized"
    /\ nLoc = <<"X",","," ","p","o","l","a","n","d">>
    /\ nCountry = <<"P","L">>
    /\ nOut = <<"X">>

\* s ends with the string suffix
EndsWith(s, suffix) ==
    /\ Len(s) >= Len(suffix)
    /\ SubSeq(s, Len(s) - Len(suffix) + 1, Len(s)) = suffix

\* the UK rule as C11 states it: with GB a trailing ", UK" is cut off, and
\* nothing else changes
TrailingUKOnly(s, country) ==
    IF country = sGB /\ EndsWith(s, sCommaUK)
    THEN SubSeq(s, 1, Len(s) - Len(sCommaUK))
    ELSE s

\* C11: with country GB the UK rule removes ", UK" exactly when the string
\* ends with it and removes only that suffix; a ", UK" elsewhere stays and
\* no other country code triggers the rule (the later rules then act on
\* that string).
C11_TrailingUKOnly ==
    (npc = "normalized" /\ ~IsSentinelInput(nLoc)) =>
        nOut = StripCountryName(
                   StripGreaterArea(TrailingUKOnly(trim(nLoc), nCountry)),
                   nCountry)

\* the placeholder terms C12 lists
PlaceholderTerms ==
    { <<"w","o","r","l","d">>, <<"e","a","r","t","h">>, <<"r","e","m","o","t","e">>, <<"n","o","m","a","d">>, <<"d","i","g","i","t","a","l"," ","n","o","m","a","d">>,
      <<"e","v","e","r","y","w","h","e","r","e">>, <<"n","o","w","h","e","r","e">>, <<"n","/","a">>, <<"t","b","d">>, <<"v","a","r","i","o","u","s">> }

\* s holds the string t at some position
Contains(s, t) ==
    \E i \in 1..(Len(s) - Len(t) + 1) : SubSeq(s, i, i + Len(t) - 1) = t

ContainsPlaceholder(location) ==
    /\ IsString(location)
    /\ \E t \in PlaceholderTerms : Contains(toLowerCase(location), t)

\* the null / null record is flagged and normalizes to the sentinel
NullRecordIsSentinel ==
    (nLoc = Null /\ nCountry = Null) =>
        /\ nFlag
        /\ npc # "classified" => nOut = sNorthPole

\* C12 as stated: a location is flagged exactly when, compared
\* case-insensitively, it is empty, null or the null marker, or contains a
\* placeholder term; the null / null record is flagged and normalizes to
\* the sentinel.
C12_FlaggedCaseInsensitive ==
    npc \in {"classified", "normalized", "queried", "again"} =>
        /\ nFlag <=> \/ ~IsString(nLoc)
                     \/ nLoc = <<>>
                     \/ toLowerCase(nLoc) = sNull
                     \/ ContainsPlaceholder(nLoc)
        /\ NullRecordIsSentinel

\* C12 amended: the null marker is the exact string "null"; only the
\* placeholder terms are compared case-insensitively.
C12_FlaggedExactNullMarker ==
    npc \in {"classified", "normalized", "queried", "again"} =>
        /\ nFlag <=> \/ ~IsString(nLoc)
                     \/ nLoc = <<>>
                     \/ nLoc = sNull
                     \/ ContainsPlaceholder(nLoc)
        /\ NullRecordIsSentinel

\* C12 witness: the null / null record has been flagged and normalized to
\* the sentinel.
C12_Witness ==
    /\ npc = "normalized"
    /\ nLoc = Null /\ nCountry = Null
    /\ nFlag
    /\ nOut = sNorthPole

----------------------------------------------------------------------------
(* Properties of the forward loop and of the verification pass (Spec) *)

\* C13: after every forward-geocode request, whatever its outcome, the run
\* waits the delay before it issues the next external request: no request,
\* forward or reverse, directly follows a forward request.
C13_DelayAfterForward ==
    /\ eventBeforeRequest # "forward"
    /\ lastEvent = "forward" => gpc = "delay"
    /\ gpc \in {"forward", "verify"} => lastEvent # "forward"

\* C13 witness: a forward request threw, the delay elapsed, and the next
\* forward request was issued after it.
C13_Witness ==
    /\ Len(requests) >= 2
    /\ requests[1].outcome = "throw"
    /\ lastEvent = "forward"
    /\ eventBeforeRequest = "delay"

\* C14: a reverse-geocode request never directly follows another reverse
\* request: the delay elapses between the two, also when the earlier one
\* threw.
C14_DelayBetweenReverse == eventBeforeRequest # "reverse"

MismatchRecorded(loc) ==
    \E m \in 1..Len(mismatches) :
        /\ mismatches[m].original = loc.location
        /\ mismatches[m].originalCountry = loc.country

HasCityName(reverse) == IsString(reverse.city) /\ reverse.city # <<>>

\* the match of C16: the reverse address contains the original location,
\* or the original location contains the reverse-geocoded city name
DeclaredMatch(location, reverse) ==
    \/ Contains(toLowerCase(reverse.formattedAddress), toLowerCase(location))
    \/ /\ HasCityName(reverse)
       /\ Contains(toLowerCase(location), toLowerCase(reverse.city))

\* C16: for a sampled entry whose reverse request returned a result, a
\* mismatch is recorded exactly when neither the reverse address contains
\* the original location nor the original location contains the city name;
\* a result without a city name whose address does not contain the
\* location is a mismatch.
C16_MismatchIffNoMatch ==
    (gpc = "vdelay" /\ lastReverse.outcome = "ok") =>
        LET loc == verificationsNeeded[vi]
        IN MismatchRecorded(loc) <=> ~DeclaredMatch(loc.location, lastReverse.reverse)

\* C18: a reverse request that throws records no mismatch and changes no
\* GeocodeResult, the loop goes on with the next sampled entry, every
\* sampled entry gets its request, and the artifact is written with every
\* forward result.
C18_ReverseThrowIsSkipped ==
    /\ (lastEvent = "reverse" /\ gpc # "vdelay") =>
          /\ vi >= 2
          /\ ~MismatchRecorded(verificationsNeeded[vi - 1])
          /\ gpc \in {"verify", "write", "done"}
          /\ gpc = "verify" <=> vi <= Len(verificationsNeeded)
    /\ gpc \in {"verify", "vdelay", "write", "done"} =>
          /\ Len(geocodeResults) = Len(requests)
          /\ \A k \in 1..Len(requests) :
                geocodeResults[k] =
                    ForwardEntry(allLocations[k], requests[k].outcome,
                                 requests[k].result)
    /\ gpc \in {"write", "done"} =>
          /\ Len(reverseRequests) = Len(verificationsNeeded)
          /\ \A k \in 1..Len(reverseRequests) :
                reverseRequests[k].key = verificationsNeeded[k].key
    /\ gpc = "done" =>
          /\ artifact # NoObject
          /\ Len(artifact.allResults) = Len(requests)
          /\ \A k \in 1..Len(requests) :
                artifact.allResults[k] = JsonResult(geocodeResults[k])

\* C18 witness: the first reverse request threw, the second sampled entry
\* was verified after it and the artifact has been written.
C18_Witness ==
    /\ gpc = "done"
    /\ Len(reverseRequests) = 2
    /\ eventBeforeRequest = "reverse"
    /\ lastEvent = "delay"
    /\ Len(artifact.allResults) = 2

----------------------------------------------------------------------------
(* Properties of the sample of the verification pass (VerifySpec) *)

\* the number of successful results among the first j of geocodeResults
SuccessesUpTo(j) ==
    Cardinality({i \in 1..j : geocodeResults[i].success})

\* C17: the sampled entries are the first 10 successful results in
\* processing order (all of them when there are fewer); the reverse
\* requests follow the sampled entries one by one, none is for a failed
\* result, and neither the requests nor the mismatches exceed 10.
C17_SampleOfTen ==
    /\ gpc \in {"verify", "vdelay", "write", "done"} =>
          /\ Len(verificationsNeeded) =
                 (IF SuccessesUpTo(Len(geocodeResults)) < 10
                  THEN SuccessesUpTo(Len(geocodeResults)) ELSE 10)
          /\ \A k \in 1..Len(verificationsNeeded) :
                \E j \in 1..Len(geocodeResults) :
                    /\ geocodeResults[j].success
                    /\ SuccessesUpTo(j) = k
                    /\ verificationsNeeded[k] = geocodeResults[j]
    /\ Len(reverseRequests) <= Len(verificationsNeeded)
    /\ \A k \in 1..Len(reverseRequests) :
          /\ reverseRequests[k].key = verificationsNeeded[k].key
          /\ MapGet(geocodeResults, reverseRequests[k].key).success
    /\ \A a, b \in 1..Len(reverseRequests) :
          reverseRequests[a].key = reverseRequests[b].key => a = b
    /\ Len(reverseRequests) <= 10
    /\ Len(mismatches) <= Len(reverseRequests)
    /\ Len(mismatches) <= 10

\* C17 witness: eleven successful results, ten reverse requests issued and
\* the run finished, with a mismatch recorded.
C17_Witness ==
    /\ gpc = "done"
    /\ SuccessesUpTo(Len(geocodeResults)) = 11
    /\ Len(reverseRequests) = 10
    /\ Len(mismatches) >= 1

----------------------------------------------------------------------------
(* Properties of the server (ServerSpec) *)

DigitChar(d) ==
    CASE d = 0 -> "0" [] d = 1 -> "1" [] d = 2 -> "2" [] d = 3 -> "3"
      [] d = 4 -> "4" [] d = 5 -> "5" [] d = 6 -> "6" [] d = 7 -> "7"
      [] d = 8 -> "8" [] d = 9 -> "9"

\* the decimal text of a natural number: how a member identifier is written
RECURSIVE DecimalText(_)
DecimalText(n) ==
    IF n < 10 THEN <<DigitChar(n)>>
    ELSE Append(DecimalText(n \div 10), DigitChar(n % 10))

\* C19: with the dataset loaded, a request for an identifier that is not
\* the identifier of a member is answered 404 with success:false, never
\* with an exception or a member; a request for the identifier of a member
\* is answered with that member and success:true.
C19_NotFoundUnlessPresent ==
    (request.route = "team/:id" /\ teamData # NoObject) =>
        LET present == {k \in 1..Len(teamData.team) :
                           DecimalText(teamData.team[k].id) = request.id}
        IN IF present = {}
           THEN /\ response.status = 404
                /\ ~response.success /\ ~response.thrown
                /\ response.data = NoObject
           ELSE \E k \in present :
                   /\ response.status = 200
                   /\ response.success
                   /\ response.data = teamData.team[k]

\* C20: after its first successful load a file is not read from the disk
\* again; the cache stays the object that load returned and the requests
\* are answered from it.
C20_LoadedOnce ==
    /\ teamRereads = 0
    /\ applicantRereads = 0
    /\ teamLoaded => teamData = teamFirst
    /\ applicantLoaded => applicantData = applicantFirst
    /\ (request.route = "applicant" /\ response.status = 200) =>
          response.data = applicantData
    /\ (request.route = "team" /\ response.status = 200) =>
          /\ response.data.team = teamData.team
          /\ response.data.metadata = teamData.metadata

\* The position of the first raw record with the (location, country) of x
FirstAppearance(x) ==
    CHOOSE i \in 1..Len(teamFile) :
        /\ SamePair(teamFile[i], x)
        /\ \A j \in 1..(i - 1) : ~SamePair(teamFile[j], x)

\* the request is for a location that STEP 2 put into the problematic group
InProblematicGroup(req) ==
    \E p \in 1..Len(problematic) : problematic[p].key = req.key

\* C23: the forward requests are issued with every problematic location
\* before every other one, and inside each group in the order in which the
\* locations first appear in the raw records.
C23_ProblematicFirst ==
    LET n == Len(requests)
        flagged(k) == InProblematicGroup(requests[k])
    IN \A i, j \in 1..n :
           i < j =>
               /\ flagged(j) => flagged(i)
               /\ (flagged(i) = flagged(j)) =>
                      FirstAppearance(requests[i]) < FirstAppearance(requests[j])

\* a problematic location of the second record is requested before the
\* ordinary location of the first record
C23_Witness ==
    /\ Len(requests) = 2
    /\ ~isPotentiallyProblematic(teamFile[1].location)
    /\ isPotentiallyProblematic(teamFile[2].location)
    /\ SamePair(requests[1], teamFile[2])
    /\ SamePair(requests[2], teamFile[1])

\* two ordinary locations are requested in the order of the records
C23_WitnessSameGroup ==
    /\ Len(requests) = 2
    /\ ~isPotentiallyProblematic(requests[1].location)
    /\ ~isPotentiallyProblematic(requests[2].location)

\* C24: during the forward pass successCount + failCount is the number of
\* results so far, and the summary of the written artifact agrees with the
\* lists it summarises: successful + failed = total = number of allResults,
\* failed = number of failedGeocode, problematic = number of
\* problematicLocations, verificationMismatches = number of the mismatches.
C24_CountersAgree ==
    /\ successCount + failCount = Len(geocodeResults)
    /\ (gpc = "done") =>
          /\ artifact.summary.successful + artifact.summary.failed
                = artifact.summary.total
          /\ artifact.summary.total = Len(artifact.allResults)
          /\ artifact.summary.failed = Len(artifact.failedGeocode)
          /\ artifact.summary.problematic = Len(artifact.problematicLocations)
          /\ artifact.summary.verificationMismatches
                = Len(artifact.verificationMismatches)

\* an artifact with a success, a failure, a problematic location and a
\* mismatch
C24_Witness ==
    /\ gpc = "done"
    /\ artifact.summary.successful = 1
    /\ artifact.summary.failed = 1
    /\ artifact.summary.problematic = 1
    /\ artifact.summary.verificationMismatches = 1

\* The number of emitted members made from the raw record with squeakId id,
\* and the number of warnings that name it (a record's name is its own)
EmittedFor(id) == Cardinality({k \in 1..Len(Team) : Team[k].id = id})
WarnedFor(name) == Cardinality({k \in 1..Len(warnings) : warnings[k].name = name})

\* C25: the Merger partitions the raw records: each one is emitted as
\* exactly one member or named in exactly one warning, never both or
\* neither; processed + skipped is the number of raw records, totalMembers
\* the number of emitted members, and the emitted members keep the order of
\* the raw records.
C25_MergerPartitions ==
    (mpc = "done") =>
        /\ \A i \in 1..Len(teamFile) :
              EmittedFor(teamFile[i].squeakId) + WarnedFor(teamFile[i].name) = 1
        /\ Len(Team) + Len(warnings) = Len(teamFile)
        /\ processed + skipped = Len(teamFile)
        /\ processed = Len(Team)
        /\ skipped = Len(warnings)
        /\ finalData.metadata.totalMembers = Len(Team)
        /\ \A k, l \in 1..Len(Team) : k < l => Team[k].id < Team[l].id

\* one record emitted and the other one skipped with a warning
C25_Witness ==
    /\ mpc = "done"
    /\ processed = 1
    /\ skipped = 1
    /\ Len(Team) = 1
    /\ Len(warnings) = 1

\* C26: the join key is injective on the (location, country) pairs of the
\* raw records: two records with different pairs have different keys, so the
\* Extractor gives each pair an entry of its own and the Merger joins a
\* record only to results that were resolved from its own pair.
C26_KeyInjective ==
    /\ \A i, j \in 1..Len(teamFile) :
          MakeKey(teamFile[i].location, teamFile[i].country)
              = MakeKey(teamFile[j].location, teamFile[j].country)
          => SamePair(teamFile[i], teamFile[j])
    /\ gpc \notin {"start", "aborted"} =>
          \A i \in 1..Len(teamFile) :
              SamePair(MapGet(locationMap,
                              MakeKey(teamFile[i].location, teamFile[i].country)),
                       teamFile[i])
    /\ mpc = "done" =>
          \A i \in 1..Len(teamFile) :
              JoinedResults(teamFile[i]) \subseteq OwnResults(teamFile[i])

\* C27: a location that normalizeLocation replaces by the sentinel place
\* name is flagged by isPotentiallyProblematic.
C27_SentinelIsFlagged ==
    (npc \in {"normalized", "queried", "again"} /\ IsSentinelInput(nLoc)) =>
        /\ nOut = sNorthPole
        /\ nFlag = TRUE

\* a location that is the word world in another case is replaced and flagged
C27_Witness ==
    /\ npc = "normalized"
    /\ nLoc # Null
    /\ nLoc # sWorld
    /\ toLowerCase(nLoc) = sWorld
    /\ nOut = sNorthPole
    /\ nFlag = TRUE

\* and in the pipeline every such location is in the problematic group, is
\* requested as the sentinel and is listed in problematicLocations
C27_SentinelInProblematicGroup ==
    /\ \A e \in 1..Len(allLocations) :
          IsSentinelInput(allLocations[e].location) =>
              \E p \in 1..Len(problematic) : problematic[p] = allLocations[e]
    /\ \A q \in 1..Len(requests) :
          IsSentinelInput(requests[q].location) =>
              normalizeLocation(requests[q].location, requests[q].country)
                  = sNorthPole
    /\ (gpc = "done") =>
          \A e \in 1..Len(allLocations) :
              IsSentinelInput(allLocations[e].location) =>
                  \E p \in 1..Len(artifact.problematicLocations) :
                      SamePair(artifact.problematicLocations[p], allLocations[e])

\* C28: a sampled result whose reverse request returned a non-empty list is
\* declared a match or recorded as a mismatch: the iteration never ends
\* without a verdict.
C28_AnsweredHasVerdict ==
    (lastReverse # NoObject /\ lastReverse.outcome = "ok") =>
        lastReverse.verdict \in {"match", "mismatch"}

\* the input of the Merger cannot be read or parsed
MergerInputBad ==
    ~teamFileOk \/ ReadThrows(artifact) \/ artifact = JsonNull

\* the step with which the geocoding stage leaves its entry, the raw team
\* file being unreadable
GeoAbortStep ==
    (gpc = "start" /\ gpc' # "start" /\ ~teamFileOk) =>
        /\ gpc' = "aborted"
        /\ stderr' = Append(stderr, GeocodeError)
        /\ artifact' = artifact
        /\ requests' = <<>> /\ reverseRequests' = <<>>

\* the step with which the Merger leaves its entry, one of its two inputs
\* being unreadable
MergeAbortStep ==
    (mpc = "idle" /\ mpc' # "idle" /\ MergerInputBad) =>
        /\ mpc' = "failed"
        /\ stderr' = Append(stderr, MergeError)
        /\ finalData' = finalData
        /\ artifact' = artifact

\* C22: a stage whose input file is unreadable or unparsable at its entry
\* aborts with an error message and writes or overwrites no output
\* artifact; the geocoding stage then issues no external request, during
\* the step and ever after.
C22_UnreadableInputAborts ==
    /\ [][GeoAbortStep /\ MergeAbortStep]_vars
    /\ [](gpc = "aborted" =>
            /\ requests = <<>> /\ reverseRequests = <<>>
            /\ artifactWrites = 0
            /\ artifact = artifactBefore)
    /\ [](mpc = "failed" => finalData = finalDataBefore)

\* both stages have aborted over the files of an earlier run, which are
\* still in place
C22_Witness ==
    /\ gpc = "aborted"
    /\ mpc = "failed"
    /\ ~teamFileOk
    /\ artifact = OldArtifact
    /\ finalData = OldData
    /\ stderr = <<GeocodeError, MergeError>>

\* C29: the artifact is written exactly once per run, after every forward
\* request and then every reverse request of the run; no reverse request
\* is issued before the last forward request, and a run that has not
\* reached its end, or was stopped, has written nothing and the artifact is
\* the one that was there before.
C29_WrittenOnceAtEnd ==
    /\ artifactWrites <= 1
    /\ (artifactWrites = 1) <=> (gpc = "done")
    /\ (gpc = "done") =>
          /\ Len(requests) = Len(allLocations)
          /\ Len(reverseRequests) = Len(verificationsNeeded)
          /\ artifact.allResults
                = [k \in 1..Len(geocodeResults) |-> JsonResult(geocodeResults[k])]
    /\ (Len(reverseRequests) > 0) => Len(requests) = Len(allLocations)
    /\ (gpc \notin {"start", "done"}) => artifact = artifactBefore

\* a run stopped after a reverse request: the old artifact is still there
C29_Witness ==
    /\ gpc = "killed"
    /\ Len(requests) = 2
    /\ Len(reverseRequests) = 1
    /\ artifactWrites = 0
    /\ artifact = OldArtifact

\* a complete run over an old artifact
C29_WitnessComplete ==
    /\ gpc = "done"
    /\ artifactBefore = OldArtifact
    /\ artifact # OldArtifact
    /\ Len(reverseRequests) = 2

\* a request is answered in this step
RequestStep == nReq' = nReq + 1

\* the request of this step reads the backing file of its route from the
\* disk and the file is missing
MissingTeamFile ==
    RequestStep /\ request'.route \in {"team", "team/:id"}
        /\ ReadsDisk(teamData) /\ finalData = NoObject
MissingApplicantFile ==
    RequestStep /\ request'.route = "applicant"
        /\ ReadsDisk(applicantData) /\ applicantFile = NoObject

\* the response is a server error with the one message of a missing file
IsMissingFileReply(r, path) ==
    /\ r.status >= 500 /\ r.status <= 599
    /\ r.success = FALSE
    /\ r.message = ErrorMessage(NoObject, path)

C30_FailedLoadLeavesCacheEmpty ==
    /\ ~teamLoaded => teamData = NoObject
    /\ ~applicantLoaded => applicantData = NoObject
    /\ teamLoaded => (teamData # NoObject /\ teamData = teamFirst)
    /\ applicantLoaded =>
          (applicantData # NoObject /\ applicantData = applicantFirst)

====
